---------------------------- MODULE Spec2Model ----------------------------
(***************************************************************************)
(* hmon: a configuration-driven HTTP monitor.  The module models the        *)
(* monitor-execution engine: Monitor.Run (src/conf.go), the two             *)
(* coordinators runSequential / runParallel (src/conf.go, src/main.go) and  *)
(* the environment they talk to (payload files, HTTP servers, the clock).   *)
(***************************************************************************)
EXTENDS Integers, Sequences, FiniteSets, TLC

(***************************************************************************)
(* Bounds of the model.                                                     *)
(***************************************************************************)
\* Largest number of monitors in one configuration (one batch).
MaxMonitors == 2

\* How often in a run time may pass although some goroutine could take a step.
MaxLag == 1

\* Largest number of configurations of one program run.
MaxConfigs == 2

(***************************************************************************)
(* 64-bit integers.  time.Duration is an int64 count of nanoseconds and     *)
(* Monitor.Timeout an int (64 bits on the usual builds), far beyond the     *)
(* integers TLC computes with, so a magnitude is kept as Limbs digits in    *)
(* base 10^6, least significant first, and a signed value as a record       *)
(* [neg, mag].                                                              *)
(***************************************************************************)
Base == 1000 * 1000

\* 2^64 = 18446744073709551616 and 2^63 = 9223372036854775808.
Two64 == <<551616, 73709, 446744, 18, 0>>

Two63 == <<775808, 36854, 223372, 9, 0>>

Limbs == Len(Two64)

ZeroMag == [i \in 1..Limbs |-> 0]

\* The magnitude of a natural number small enough for TLC (n < 2^31).
MagOf(n) == [i \in 1..Limbs |-> IF i = 1 THEN n % Base
                                ELSE IF i = 2 THEN n \div Base ELSE 0]

RECURSIVE MagAddFrom(_, _, _, _)
MagAddFrom(a, b, i, carry) ==
    IF i > Limbs THEN <<>>
    ELSE LET s == a[i] + b[i] + carry
         IN  <<s % Base>> \o MagAddFrom(a, b, i + 1, s \div Base)

MagAdd(a, b) == MagAddFrom(a, b, 1, 0)

\* a - b for a >= b.
RECURSIVE MagSubFrom(_, _, _, _)
MagSubFrom(a, b, i, borrow) ==
    IF i > Limbs THEN <<>>
    ELSE LET d == a[i] - b[i] - borrow
         IN  IF d < 0 THEN <<d + Base>> \o MagSubFrom(a, b, i + 1, 1)
                      ELSE <<d>> \o MagSubFrom(a, b, i + 1, 0)

MagSub(a, b) == MagSubFrom(a, b, 1, 0)

RECURSIVE MagLessFrom(_, _, _)
MagLessFrom(a, b, i) ==
    IF i < 1 THEN FALSE
    ELSE IF a[i] # b[i] THEN a[i] < b[i]
    ELSE MagLessFrom(a, b, i - 1)

MagLess(a, b) == MagLessFrom(a, b, Limbs)

\* a * k for a small factor k (k <= 2000 keeps every product below 2^31).
RECURSIVE MagMulSmallFrom(_, _, _, _)
MagMulSmallFrom(a, k, i, carry) ==
    IF i > Limbs THEN <<>>
    ELSE LET s == a[i] * k + carry
         IN  <<s % Base>> \o MagMulSmallFrom(a, k, i + 1, s \div Base)

MagMulSmall(a, k) == MagMulSmallFrom(a, k, 1, 0)

\* a * 10^6 and a \div 10^6: one limb up, one limb down.
MagShiftUp(a) == <<0>> \o SubSeq(a, 1, Limbs - 1)

MagShiftDown(a) == SubSeq(a, 2, Limbs) \o <<0>>

\* x mod m, by binary long division: x mod 2m first, then at most one m off.
RECURSIVE MagMod(_, _)
MagMod(x, m) ==
    IF MagLess(x, m) THEN x
    ELSE LET y == MagMod(x, MagAdd(m, m))
         IN  IF MagLess(y, m) THEN y ELSE MagSub(y, m)

\* The int64 a non-negative mathematical value wraps to (two's complement).
WrapInt64(x) ==
    LET r == MagMod(x, Two64)
    IN  IF MagLess(r, Two63) THEN [neg |-> FALSE, mag |-> r]
                             ELSE [neg |-> TRUE, mag |-> MagSub(Two64, r)]

\* An int64 from a small integer of the model.
I64(n) == IF n < 0 THEN [neg |-> TRUE, mag |-> MagOf(0 - n)]
                   ELSE [neg |-> FALSE, mag |-> MagOf(n)]

I64Positive(v) == ~v.neg /\ v.mag # ZeroMag

\* Go's truncated division of an int64 by a positive divisor of 10^6.
I64DivMillion(v) ==
    LET q == MagShiftDown(v.mag)
    IN  [neg |-> v.neg /\ q # ZeroMag, mag |-> q]

\* The small integer an int64 denotes, when it is one (|v| < 2 * 10^9).
I64Small(v) == v.mag[3] = 0 /\ v.mag[4] = 0 /\ v.mag[5] = 0 /\ v.mag[2] < 2000

I64ToInt(v) == IF v.neg THEN 0 - (v.mag[1] + Base * v.mag[2])
                        ELSE v.mag[1] + Base * v.mag[2]


(***************************************************************************)
(* Durations (src/conf.go, Monitor.Run, lines 153-165).                     *)
(***************************************************************************)
\* Default timeout in seconds.
TIMEOUT_DEFAULT == 60

\* time.Duration(n) * time.Second and time.Duration(n) * time.Millisecond for
\* a non-negative n: int64 products in nanoseconds, which wrap.
TimesSecond(mag) == WrapInt64(MagShiftUp(MagMulSmall(mag, 1000)))

TimesMillisecond(mag) == WrapInt64(MagShiftUp(mag))

\* The timeout Run waits for, a time.Duration.
EffectiveTimeout(timeout) ==
    IF ~I64Positive(timeout) THEN TimesSecond(MagOf(TIMEOUT_DEFAULT))
    ELSE TimesMillisecond(timeout.mag)

\* timeout / time.Millisecond, the number of the "timeout after %d ms" error.
DurationMillis(d) == I64DivMillion(d)

\* The whole milliseconds after which a timer of duration d has fired: none for
\* d <= 0 (time.After fires at once), -1 when it is further away than any
\* run of the model lasts.
TimerDelay(d) ==
    IF ~I64Positive(d) THEN 0
    ELSE LET q == I64DivMillion(d)
         IN  IF ~I64Small(q) THEN -1
             ELSE I64ToInt(q) + (IF d.mag[1] = 0 THEN 0 ELSE 1)

(***************************************************************************)
(* The environment: payload files, URLs, servers, regular expressions.      *)
(***************************************************************************)
Nil == <<>>

\* ioutil.ReadFile(path.Join(baseDir, file)): the bytes, or an error.
ReadFile(file) ==
    IF file = "request.xml"
    THEN [err |-> FALSE, bytes |-> <<"<", "r", "/", ">">>]
    ELSE [err |-> TRUE, bytes |-> Nil]

\* url.Parse, on which http.NewRequest fails: an invalid escape.
UrlParses(url) == url # "http://x/%zz"

NilRequest == [nil |-> TRUE, method |-> "", url |-> "", body |-> Nil,
               headers |-> <<>>]

\* http.NewRequest(method, url, body): (req, err); req is nil on an error.
NewRequest(method, url, body) ==
    IF UrlParses(url)
    THEN [err |-> FALSE,
          req |-> [nil |-> FALSE, method |-> method, url |-> url,
                   body |-> body, headers |-> <<>>]]
    ELSE [err |-> TRUE, req |-> NilRequest]

\* What the server behind a URL does with a request: after headerMs
\* client.Do returns (a response with its HTTP status, or a transport error);
\* the body is complete bodyMs later.  answers = FALSE: the server never
\* answers.
Server(url) ==
    CASE url = "http://x/ok" ->
           [answers |-> TRUE, refused |-> FALSE, headerMs |-> 1, bodyMs |-> 0,
            status |-> 200, body |-> <<"i", "s", " ", "O", "K">>]
      [] url = "http://x/slow" ->
           [answers |-> TRUE, refused |-> FALSE, headerMs |-> 3, bodyMs |-> 0,
            status |-> 200, body |-> <<"O", "K">>]
      [] url = "http://x/drip" ->
           [answers |-> TRUE, refused |-> FALSE, headerMs |-> 1, bodyMs |-> 3,
            status |-> 500, body |-> <<"O", "K">>]
      [] url = "http://x/down" ->
           [answers |-> TRUE, refused |-> TRUE, headerMs |-> 0, bodyMs |-> 0,
            status |-> 0, body |-> Nil]
      [] OTHER ->
           [answers |-> FALSE, refused |-> FALSE, headerMs |-> 0, bodyMs |-> 0,
            status |-> 0, body |-> Nil]

\* Regular expressions of the model are literal texts; one with an unclosed
\* group, "(", does not compile.
Compiles(pattern) == \A k \in 1..Len(pattern) : pattern[k] # "("

\* A mutant: a pattern matches only at the start of the body.
FindAtStart(pattern, body) ==
    Len(pattern) <= Len(body) /\ SubSeq(body, 1, Len(pattern)) = pattern

\* regexp.Find(body) # nil for a compiled literal pattern.
Find(pattern, body) ==
    \E k \in 0..(Len(body) - Len(pattern)) :
        SubSeq(body, k + 1, k + Len(pattern)) = pattern

(***************************************************************************)
(* Monitors (src/conf.go, type Monitor, lines 73-82) the batches are drawn  *)
(* from.  Timeout is an int, of 64 bits; Headers a list of <<name, value>>. *)
(***************************************************************************)
Mon(name, url, file, timeout, headers, assertions) ==
    [Name |-> name, Url |-> url, File |-> file, Timeout |-> timeout,
     Headers |-> headers, Assertions |-> assertions]

SoapAction == <<"SOAPAction", "ping">>

PatOK == <<"O", "K">>

PatDown == <<"D", "O", "W", "N">>

PatBroken == <<"(">>

\* 9223372036855: the least Timeout whose product with 10^6 exceeds 2^63 - 1.
TimeoutTooLarge == [neg |-> FALSE, mag |-> <<36855, 223372, 9, 0, 0>>]

Catalog ==
    << Mon("get-ok", "http://x/ok", "", I64(0), <<>>, <<PatOK>>),
       Mon("post-ok", "http://x/ok", "request.xml", I64(2), <<SoapAction>>, <<>>),
       Mon("post-nofile", "http://x/ok", "missing.xml", I64(2), <<>>, <<PatOK>>),
       Mon("get-badurl", "http://x/%zz", "", I64(2), <<SoapAction>>, <<>>),
       Mon("post-badurl", "http://x/%zz", "request.xml", I64(2), <<>>, <<>>),
       Mon("soap-badurl", "http://x/%zz", "request.xml", I64(2), <<SoapAction>>, <<>>),
       Mon("slow", "http://x/slow", "", I64(2), <<>>, <<PatOK>>),
       Mon("drip", "http://x/drip", "request.xml", I64(2), <<>>, <<>>),
       Mon("down", "http://x/down", "", I64(-1), <<>>, <<PatOK>>),
       Mon("hang", "http://x/hang", "", I64(0), <<>>, <<>>),
       Mon("assert-fail", "http://x/ok", "", I64(2), <<>>, <<PatDown, PatBroken>>),
       Mon("bad-regex", "http://x/ok", "", I64(2), <<>>, <<PatOK, PatBroken>>),
       Mon("overflow", "http://x/slow", "", TimeoutTooLarge, <<>>, <<>>) >>

\* The batches: up to MaxMonitors monitors of the catalog, pairwise different.
Batches ==
    LET picks == UNION {[1..n -> 1..Len(Catalog)] : n \in 0..MaxMonitors}
    IN  {[k \in DOMAIN p |-> Catalog[p[k]]] :
            p \in {q \in picks : \A a, b \in DOMAIN q : a # b => q[a] # q[b]}}

(***************************************************************************)
(* Results and errors (src/conf.go, type Result, lines 334-338).            *)
(* Monitor is a pointer: 0 denotes the coordinator's for-range variable     *)
(* `mon', k > 0 the storage of the k-th monitor of the batch.  run is not a *)
(* field of the program: it records the goroutine that sent the result.     *)
(***************************************************************************)
Err(kind, ms, pattern) == [kind |-> kind, ms |-> ms, pattern |-> pattern]

ErrNil == Err("nil", I64(0), Nil)

Result(ref, latency, error, i) ==
    [Monitor |-> ref, Latency |-> latency, Error |-> error, run |-> i]

NoResult == Result(0, 0, ErrNil, 0)

(***************************************************************************)
(* Monitor.Run, the pure parts.                                             *)
(***************************************************************************)
\* A mutant: a payload that cannot be read is sent as an empty POST.
PrepareIgnoringReadError(m) ==
    IF m.File = ""
    THEN LET nr == NewRequest("GET", m.Url, Nil)
         IN  IF nr.err THEN [outcome |-> "fail", kind |-> "request", req |-> NilRequest]
             ELSE [outcome |-> "dispatch", kind |-> "nil", req |-> nr.req]
    ELSE LET nr == NewRequest("POST", m.Url, ReadFile(m.File).bytes)
         IN  [outcome |-> "dispatch", kind |-> "nil", req |-> nr.req]

\* Lines 108-128: the request of monitor m, or the early failure.  In the
\* POST branch `requestBody, err := ioutil.ReadFile(...)' declares a new err,
\* and `req, err = http.NewRequest("POST", ...)' assigns that one: the err
\* tested at line 124 is set by the GET branch only.
Prepare(m) ==
    IF m.File = ""
    THEN LET nr == NewRequest("GET", m.Url, Nil)
         IN  IF nr.err THEN [outcome |-> "fail", kind |-> "request", req |-> NilRequest]
             ELSE [outcome |-> "dispatch", kind |-> "nil", req |-> nr.req]
    ELSE LET rf == ReadFile(m.File)
         IN  IF rf.err THEN [outcome |-> "fail", kind |-> "io", req |-> NilRequest]
             ELSE [outcome |-> "dispatch", kind |-> "nil",
                   req |-> NewRequest("POST", m.Url, rf.bytes).req]

\* The requestBody declared at line 108, which the callback is given: the
\* bytes read at line 115 go to the variable that `:=' declares in the else
\* block, so this one stays nil.
RequestBody(m) == Nil

\* Lines 130-133: req.Header.Add for every header; a nil req is dereferenced
\* by the first one.
AddHeaders(req, headers) ==
    IF headers = <<>> THEN [panic |-> FALSE, req |-> req]
    ELSE IF req.nil THEN [panic |-> TRUE, req |-> req]
    ELSE [panic |-> FALSE, req |-> [req EXCEPT !.headers = headers]]

\* A mutant: every pattern is compiled and evaluated, then the first failure
\* is reported.
CheckAssertionsAll(assertions, body, k) ==
    LET rest == k..Len(assertions)
        bad == {j \in rest : ~Find(assertions[j], body)}
    IN  IF \E j \in rest : ~Compiles(assertions[j])
        THEN [outcome |-> "panic",
              pattern |-> assertions[CHOOSE j \in rest : ~Compiles(assertions[j])]]
        ELSE IF bad = {} THEN [outcome |-> "passed", pattern |-> Nil]
        ELSE [outcome |-> "failed",
              pattern |-> assertions[CHOOSE j \in bad : \A l \in bad : j <= l]]

\* Lines 185-197: the assertions in order; the first pattern that is found
\* nowhere in the body fails the check, a pattern reached that does not
\* compile panics (regexp.MustCompile).
RECURSIVE CheckAssertions(_, _, _)
CheckAssertions(assertions, body, k) ==
    IF k > Len(assertions) THEN [outcome |-> "passed", pattern |-> Nil]
    ELSE IF ~Compiles(assertions[k]) THEN [outcome |-> "panic", pattern |-> assertions[k]]
    ELSE IF ~Find(assertions[k], body) THEN [outcome |-> "failed", pattern |-> assertions[k]]
    ELSE CheckAssertions(assertions, body, k + 1)

\* notifyCallback (lines 90-94): the callback's invocations, when one is set.
Notify(calls, callback, name, input, output) ==
    IF callback THEN Append(calls, [name |-> name, input |-> input, output |-> output])
    ELSE calls

(***************************************************************************)
(* Configurations and their validation (src/conf.go, Config.Validate,       *)
(* lines 213-250, and validateConfigurations, lines 388-429).  A            *)
(* configuration's name is a sequence of characters.                        *)
(***************************************************************************)
Cfg(name, filename, monitors) ==
    [Name |-> name, FileName |-> filename, Monitors |-> monitors]

\* strings.TrimSpace(s): s without its leading and trailing white space.
RECURSIVE TrimSpace(_)
TrimSpace(s) ==
    IF s = <<>> THEN s
    ELSE IF Head(s) = " " THEN TrimSpace(Tail(s))
    ELSE IF s[Len(s)] = " " THEN TrimSpace(SubSeq(s, 1, Len(s) - 1))
    ELSE s

\* url.ParseRequestURI(url) returns no error: an absolute URI or path, with
\* valid escapes.
ParseRequestURI(url) == url \notin {"", "nowhere", "http://x/%zz"}

\* An entry of ValidationError.ErrorList; monidx and assidx count from 0, as
\* in the messages, and are -1 where the message has none.
VErr(kind, monidx, assidx) == [kind |-> kind, monidx |-> monidx, assidx |-> assidx]

\* Lines 235-240: one entry for every assertion that regexp.Compile rejects.
RECURSIVE ValidateAssertions(_, _, _)
ValidateAssertions(assertions, monidx, assidx) ==
    IF assidx >= Len(assertions) THEN <<>>
    ELSE (IF Compiles(assertions[assidx + 1]) THEN <<>>
          ELSE <<VErr("invalid regex", monidx, assidx)>>)
         \o ValidateAssertions(assertions, monidx, assidx + 1)

\* Lines 221-240: the entries of the monitor at index monidx.
ValidateMonitor(mon, monidx) ==
    (IF mon.Name = "" THEN <<VErr("empty name", monidx, -1)>> ELSE <<>>)
    \o (IF mon.Url = "" THEN <<VErr("empty url", monidx, -1)>>
        ELSE IF ~ParseRequestURI(mon.Url) THEN <<VErr("malformed url", monidx, -1)>>
        ELSE <<>>)
    \o ValidateAssertions(mon.Assertions, monidx, 0)

RECURSIVE ValidateMonitors(_, _)
ValidateMonitors(monitors, monidx) ==
    IF monidx >= Len(monitors) THEN <<>>
    ELSE ValidateMonitor(monitors[monidx + 1], monidx)
         \o ValidateMonitors(monitors, monidx + 1)

\* What Validate returns: nil, or the ValidationError with its list.
Verdict(list) ==
    IF Len(list) > 0 THEN [nil |-> FALSE, ErrorList |-> list]
    ELSE [nil |-> TRUE, ErrorList |-> <<>>]

\* A mutant: the validation stops at the first violation.
ValidateFirstOnly(c) ==
    LET list == (IF TrimSpace(c.Name) = <<>> THEN <<VErr("config name", -1, -1)>>
                 ELSE <<>>) \o ValidateMonitors(c.Monitors, 0)
    IN  Verdict(IF list = <<>> THEN list ELSE <<Head(list)>>)

\* Config.Validate.
Validate(c) ==
    Verdict((IF TrimSpace(c.Name) = <<>> THEN <<VErr("config name", -1, -1)>>
             ELSE <<>>) \o ValidateMonitors(c.Monitors, 0))

\* The process has not exited.
NotExited == 0 - 1

\* A mutant: validation errors are printed and the program goes on.
ValidationExitOnlyPrints(configurations, validateOnly) ==
    IF Len(configurations) = 0 THEN 1
    ELSE IF validateOnly THEN 0
    ELSE NotExited

\* validateConfigurations: the exit code it ends the process with, if it does.
ValidationExit(configurations, validateOnly) ==
    IF Len(configurations) = 0 THEN 1
    ELSE IF \E i \in 1..Len(configurations) : ~Validate(configurations[i]).nil THEN 1
    ELSE IF validateOnly THEN 0
    ELSE NotExited

\* The largest value of an int8; `var totalerrs int8'.
Int8Max == 127

\* An integer as an int8 holds it: modulo 2^8, in -128..127.
Int8(n) == ((n + Int8Max + 1) % (2 * Int8Max + 2)) - Int8Max - 1

\* totalerrs after n more executions of totalerrs++.
Incr8Times(t, n) == Int8(t + n)

\* validateConfigurations' totalerrs after its loops: one totalerrs++ for
\* every entry of every configuration's ErrorList, from configuration k on,
\* and then (v1.1.0) one for every uniqueness error.
RECURSIVE TotalErrs(_, _, _, _)
TotalErrs(configurations, k, duplicates, totalerrs) ==
    IF k > Len(configurations) THEN Incr8Times(totalerrs, Len(duplicates))
    ELSE TotalErrs(configurations, k + 1, duplicates,
                   Incr8Times(totalerrs, Len(Validate(configurations[k]).ErrorList)))

\* An error of the uniqueness check: the file, its hmonconfig name, and the
\* file the name "is already defined in".
UErr(file, name, first) == [file |-> file, name |-> name, first |-> first]

\* A mutant: the uniqueness of the names is not checked.
UniquenessUnchecked(configurations, k, mapConfigNames) == <<>>

\* v1.1.0 (src/main.go lines 64-76): mapConfigNames maps a configuration's
\* name to the file that defined it first.
RECURSIVE UniquenessErrors(_, _, _)
UniquenessErrors(configurations, k, mapConfigNames) ==
    IF k > Len(configurations) THEN <<>>
    ELSE LET c == configurations[k]
         IN  IF c.Name \in DOMAIN mapConfigNames
             THEN <<UErr(c.FileName, c.Name, mapConfigNames[c.Name])>>
                  \o UniquenessErrors(configurations, k + 1, mapConfigNames)
             ELSE UniquenessErrors(configurations, k + 1,
                     [n \in DOMAIN mapConfigNames \cup {c.Name} |->
                         IF n = c.Name THEN c.FileName ELSE mapConfigNames[n]])

\* v1.1.0, lines 78-85: a uniqueness error too ends the process with code 1.
UniquenessExit(duplicates, code) ==
    IF duplicates # <<>> /\ code \in {NotExited, 0} THEN 1 ELSE code

\* v1.0.4, lines 737-740: allMonitors = append(allMonitors, c.Monitors...)
RECURSIVE AllMonitors(_, _)
AllMonitors(configurations, k) ==
    IF k > Len(configurations) THEN <<>>
    ELSE configurations[k].Monitors \o AllMonitors(configurations, k + 1)

\* A mutant: -combine is not looked at.
BatchCountPerConfiguration(configurations, combine) == Len(configurations)

\* Lines 721-758: the number of calls of runParallel or runSequential.
BatchCount(configurations, combine) ==
    IF combine THEN 1 ELSE Len(configurations)

\* The monitors of the b-th call.
BatchMonitors(configurations, combine, b) ==
    IF combine THEN AllMonitors(configurations, 1) ELSE configurations[b].Monitors

\* The configurations a program run loads are drawn from these: files of one
\* directory, so no two of a run have the same FileName.  Two files have the
\* hmonconfig name "a"; the two monitors of b_hmon.xml have the same name;
\* the eight monitors of h_hmon.xml have together one assertion more than an
\* int8 can count, none of which compiles.
ConfigPool ==
    << Cfg(<<"a">>, "a_hmon.xml", <<Catalog[1]>>),
       Cfg(<<"b", " ">>, "b_hmon.xml",
           <<Catalog[7], [Catalog[2] EXCEPT !.Name = Catalog[7].Name]>>),
       Cfg(<<"c">>, "c_hmon.xml", <<>>),
       Cfg(<<" ", " ">>, "d_hmon.xml", <<Catalog[1]>>),
       Cfg(<<>>, "e_hmon.xml",
           << Mon("", "", "", I64(0), <<>>, <<PatBroken, PatOK, PatBroken>>),
              Mon("m", "nowhere", "", I64(0), <<>>, <<>>),
              Catalog[12] >>),
       Cfg(<<"a">>, "f_hmon.xml", <<>>),
       Cfg(<<"h">>, "h_hmon.xml",
           [m \in 1..8 |->
               [Catalog[1] EXCEPT !.Assertions = [k \in 1..(Int8Max + 1) \div 8 |-> PatBroken]]]) >>

\* The flags -format and -output a program run is started with: the
\* defaults, a format with an output file, a format with a blank output, the
\* pandora format, and a format the program does not know.
FlagPool ==
    { <<"", <<>>>>, <<"json", <<"o">>>>, <<"json", <<" ">>>>,
      <<"pandora", <<"o">>>>, <<"xml", <<"o">>>> }

ConfigLists ==
    LET lists == UNION {[1..n -> {ConfigPool[k] : k \in 1..Len(ConfigPool)}] :
                           n \in 0..MaxConfigs}
    IN  {cs \in lists : \A a, b \in DOMAIN cs :
                            a # b => cs[a].FileName # cs[b].FileName}

(***************************************************************************)
(* printExecutionSummary (src/conf.go lines 609-630): one pass over the     *)
(* results of all batches.                                                  *)
(***************************************************************************)
Counts(total, countOk, countFail) ==
    [total |-> total, countOk |-> countOk, countFail |-> countFail]

\* for _, res := range cr.Results { ... }
RECURSIVE CountResults(_, _, _)
CountResults(rs, k, n) ==
    IF k > Len(rs) THEN n
    ELSE CountResults(rs, k + 1,
            IF rs[k].Error = ErrNil
            THEN Counts(n.total + 1, n.countOk + 1, n.countFail)
            ELSE Counts(n.total + 1, n.countOk, n.countFail + 1))

\* for _, cr := range configResults { ... }
RECURSIVE CountBatches(_, _, _)
CountBatches(configResults, b, n) ==
    IF b > Len(configResults) THEN n
    ELSE CountBatches(configResults, b + 1, CountResults(configResults[b], 1, n))

\* A mutant: only the first batch is counted.
printExecutionSummaryFirstBatch(configResults) ==
    IF configResults = <<>> THEN Counts(0, 0, 0)
    ELSE CountResults(configResults[1], 1, Counts(0, 0, 0))

printExecutionSummary(configResults) ==
    CountBatches(configResults, 1, Counts(0, 0, 0))

\* The program around the batches: pc "none" when one call of runParallel or
\* runSequential is looked at on its own.
\* version is the program's: "1.0.4" (src/conf.go) or "1.1.0" (src/main.go,
\* lines 1-438); duplicates is what the uniqueness check reported, totalerrs
\* the total validateConfigurations printed; format and output are the flags
\* -format and -output, files the configurations in the files the program is
\* pointed at, written what became of the results file; batches
\* lists the monitors handed to each call of runParallel or runSequential.
Main(pc, version, combine, configurations, validateOnly, verdicts, batch, configResults, summary, exit) ==
    [pc |-> pc, version |-> version, combine |-> combine,
     configurations |-> configurations, validateOnly |-> validateOnly,
     verdicts |-> verdicts, duplicates |-> <<>>, totalerrs |-> 0,
     format |-> "", output |-> <<>>, files |-> <<>>, written |-> "unreached",
     batch |-> batch,
     batches |-> <<>>, configResults |-> configResults,
     summary |-> summary, exit |-> exit]

NoMain ==
    Main("none", "1.0.4", FALSE, <<>>, FALSE, <<>>, 0, <<>>, Counts(0, 0, 0),
         NotExited)

(***************************************************************************)
(* The state.                                                               *)
(***************************************************************************)
VARIABLES
    main,      \* the function main: its position, the program's version, the
               \* -combine flag, the configurations, the -validate flag, what
               \* Validate returned, the batch at hand, configResults, the
               \* summary printed, the exit code
    mode,      \* "parallel" (runParallel) or "sequential" (runSequential)
    loopVar,   \* what Run's receiver points to: "shared", the one for-range
               \* variable `mon' of v1.0.4 / v1.1.0 (go mon.Run); "element",
               \* the monitor's own storage (go m[i].Run of v1.0.1)
    verbose,   \* the -verbose flag: mon.Callback = verboseCallback
    config,    \* config.Monitors, the batch
    mon,       \* the index of the monitor the variable `mon' holds (0: none)
    mainPc,    \* the coordinator: "spawn", "recv", "returned"
    next,      \* the index of the next monitor the coordinator starts
    ch,        \* the result channel
    results,   \* results.Results
    run,       \* the Run goroutines, one per monitor started
    lag,       \* how often time has passed over a goroutine that could step
    crashed    \* a goroutine panicked: the process is gone

vars == <<main, mode, loopVar, verbose, config, mon, mainPc, next, ch, results, run,
          lag, crashed>>

N == Len(config)

\* The goroutine of a monitor not started yet.  elapsed is the time in
\* milliseconds since tstart (line 136); ran the monitor whose fields the
\* goroutine read when it built its request, asserted the one whose
\* assertions it read.
Idle ==
    [pc |-> "idle", ref |-> 0, ran |-> 0, asserted |-> 0, req |-> NilRequest, helper |-> "none",
     timer |-> "none", timeout |-> I64(0), elapsed |-> 0, resp |-> "none",
     requestBody |-> Nil, out |-> NoResult, sent |-> 0, calls |-> <<>>]

Init ==
    /\ main = NoMain
    /\ mode \in {"parallel", "sequential"}
    /\ loopVar \in {"shared", "element"}
    /\ verbose \in BOOLEAN
    /\ config \in Batches
    /\ mon = 0
    /\ mainPc = "spawn"
    /\ next = 1
    /\ ch = <<>>
    /\ results = <<>>
    /\ run = [i \in 1..Len(config) |-> Idle]
    /\ lag = 0
    /\ crashed = FALSE

\* The monitor a pointer denotes now.
Deref(ref) == IF ref = 0 THEN config[mon] ELSE config[ref]

\* The index in the batch of the monitor a pointer denotes now.
Target(ref) == IF ref = 0 THEN mon ELSE ref

\* A mutant: runParallel's channel has no buffer either.
CanSendUnbuffered == mainPc = "recv" /\ ch = <<>>

\* make(chan Result, len(config.Monitors)) in runParallel, make(chan Result)
\* in runSequential: an unbuffered send completes when the coordinator, the
\* only receiver, is receiving.
CanSend ==
    IF mode = "parallel" THEN Len(ch) < N
    ELSE mainPc = "recv" /\ ch = <<>>

\* Once a goroutine has its result and its helper is not calling the server,
\* time means nothing to it any more.
Settle(r) ==
    IF r.pc \in {"send", "done"} /\ r.helper # "running"
    THEN [r EXCEPT !.elapsed = 0] ELSE r

(***************************************************************************)
(* The coordinators (src/conf.go lines 562-606, src/main.go 244-288 and     *)
(* 562-599).                                                                *)
(***************************************************************************)
\* A mutant: the sequential loop starts the next Run without receiving.
MainSpawnWithoutReceiving ==
    /\ ~crashed /\ mainPc \in {"spawn", "recv"} /\ next <= N
    /\ mon' = next
    /\ run' = [run EXCEPT ![next] =
                  [Idle EXCEPT !.pc = "start",
                               !.ref = IF loopVar = "shared" THEN 0 ELSE next]]
    /\ next' = next + 1
    /\ mainPc' = IF mode = "sequential" THEN "recv" ELSE "spawn"
    /\ UNCHANGED <<main, mode, loopVar, verbose, config, ch, results, lag, crashed>>

\* for _, mon := range config.Monitors { ...; go mon.Run(filedir, ch) }
MainSpawn ==
    /\ ~crashed /\ mainPc = "spawn" /\ next <= N
    /\ mon' = next
    /\ run' = [run EXCEPT ![next] =
                  [Idle EXCEPT !.pc = "start",
                               !.ref = IF loopVar = "shared" THEN 0 ELSE next]]
    /\ next' = next + 1
    /\ mainPc' = IF mode = "sequential" THEN "recv" ELSE "spawn"
    /\ UNCHANGED <<main, mode, loopVar, verbose, config, ch, results, lag, crashed>>

\* runParallel: all goroutines are started, the receiving loop begins.
MainCollect ==
    /\ ~crashed /\ mainPc = "spawn" /\ next > N /\ mode = "parallel"
    /\ mainPc' = "recv"
    /\ UNCHANGED <<main, mode, loopVar, verbose, config, mon, next, ch, results, run,
                   lag, crashed>>

\* A mutant: the receiving loop gives up at the first failed check.
BatchDoneAtFirstFailure ==
    \/ IF mode = "sequential" THEN mainPc = "spawn" /\ next > N
       ELSE mainPc = "recv" /\ Len(results) = N
    \/ /\ results # <<>>
       /\ results[Len(results)].Error.kind # "nil"
       /\ mainPc = IF mode = "sequential" THEN "spawn" ELSE "recv"

\* The loop that receives has run once per monitor.
BatchDone ==
    IF mode = "sequential" THEN mainPc = "spawn" /\ next > N
    ELSE mainPc = "recv" /\ Len(results) = N

\* result := <-ch; results.Results = append(results.Results, result)
MainRecv ==
    /\ ~crashed /\ mainPc = "recv" /\ ~BatchDone /\ ch # <<>>
    /\ results' = Append(results, Head(ch))
    /\ ch' = Tail(ch)
    /\ mainPc' = IF mode = "sequential" THEN "spawn" ELSE "recv"
    /\ UNCHANGED <<main, mode, loopVar, verbose, config, mon, next, run, lag, crashed>>

\* return results
MainReturn ==
    /\ ~crashed /\ BatchDone
    /\ mainPc' = "returned"
    /\ UNCHANGED <<main, mode, loopVar, verbose, config, mon, next, ch, results, run,
                   lag, crashed>>

(***************************************************************************)
(* Monitor.Run (src/conf.go lines 105-204), goroutine i.  Under             *)
(* loopVar = "shared" the receiver is the coordinator's variable `mon',     *)
(* which the coordinator overwrites while the goroutine reads it: every     *)
(* read takes the value `mon' has at that step.                             *)
(***************************************************************************)
\* Lines 106-160: the request is built and dispatched in a helper goroutine,
\* the clock started and the timeout worked out; or the check fails early.
RunStart(i) ==
    /\ ~crashed /\ run[i].pc = "start"
    /\ LET r == run[i]
           m == Deref(r.ref)
           p == Prepare(m)
           h == AddHeaders(p.req, m.Headers)
       IN  IF p.outcome = "fail"
           THEN /\ run' = [run EXCEPT ![i] =
                     [r EXCEPT !.pc = "send", !.ran = Target(r.ref),
                               !.requestBody = RequestBody(m),
                               !.calls = Notify(r.calls, verbose, m.Name,
                                                RequestBody(m), Nil),
                               !.out = Result(r.ref, 0, Err(p.kind, I64(0), Nil), i)]]
                /\ UNCHANGED crashed
           ELSE IF h.panic
           THEN /\ crashed' = TRUE
                /\ run' = [run EXCEPT ![i] = [r EXCEPT !.pc = "panic",
                                                       !.ran = Target(r.ref)]]
           ELSE /\ run' = [run EXCEPT ![i] =
                     [r EXCEPT !.pc = "select", !.ran = Target(r.ref),
                               !.requestBody = RequestBody(m),
                               !.req = h.req, !.elapsed = 0,
                               !.helper = "running", !.timer = "armed",
                               !.timeout = EffectiveTimeout(m.Timeout)]]
                /\ UNCHANGED crashed
    /\ UNCHANGED <<main, mode, loopVar, verbose, config, mon, mainPc, next, ch,
                   results, lag>>

\* Lines 146-149, the helper goroutine: client.Do(req) with a nil req
\* dereferences it.
HelperPanic(i) ==
    /\ ~crashed /\ run[i].helper = "running" /\ run[i].req.nil
    /\ crashed' = TRUE
    /\ run' = [run EXCEPT ![i].helper = "panic"]
    /\ UNCHANGED <<main, mode, loopVar, verbose, config, mon, mainPc, next, ch,
                   results, lag>>

\* client.Do has something to return: the server answered headerMs after the
\* dispatch.
DoDue(r) ==
    /\ r.helper = "running" /\ ~r.req.nil
    /\ Server(r.req.url).answers
    /\ r.elapsed >= Server(r.req.url).headerMs

\* client.Do returns, with the response (the headers are in) or an error; the
\* helper now blocks in `timeoutChan <- response{resp, err}'.
DoReturn(i) ==
    /\ ~crashed /\ DoDue(run[i])
    /\ run' = [run EXCEPT ![i] =
          Settle([run[i] EXCEPT !.helper = "ready",
                                !.resp = IF Server(run[i].req.url).refused
                                         THEN "error" ELSE "response"])]
    /\ UNCHANGED <<main, mode, loopVar, verbose, config, mon, mainPc, next, ch,
                   results, lag, crashed>>

\* The timer of time.After(timeout) is due.
TimerDue(r) ==
    /\ r.pc = "select" /\ r.timer = "armed"
    /\ TimerDelay(r.timeout) >= 0
    /\ r.elapsed >= TimerDelay(r.timeout)

\* The timer puts its value in its channel.
TimerFire(i) ==
    /\ ~crashed /\ TimerDue(run[i])
    /\ run' = [run EXCEPT ![i].timer = "fired"]
    /\ UNCHANGED <<main, mode, loopVar, verbose, config, mon, mainPc, next, ch,
                   results, lag, crashed>>

\* fmt.Errorf("timeout after %d ms", timeout/time.Millisecond)
TimeoutError(timeout) == Err("timeout", DurationMillis(timeout), Nil)

\* Lines 162-166: the select takes `case <-time.After(timeout)'.
SelectTimeout(i) ==
    /\ ~crashed /\ run[i].pc = "select" /\ run[i].timer = "fired"
    /\ LET r == run[i]
           m == Deref(r.ref)
       IN  run' = [run EXCEPT ![i] =
               Settle([r EXCEPT !.pc = "send", !.timer = "taken",
                         !.calls = Notify(r.calls, verbose, m.Name, r.requestBody, Nil),
                         !.out = Result(r.ref, 0, TimeoutError(r.timeout), i)])]
    /\ UNCHANGED <<main, mode, loopVar, verbose, config, mon, mainPc, next, ch,
                   results, lag, crashed>>

\* A mutant: the response is handed over through a buffer the select is
\* polled on again, so that a late response replaces a timeout.
SelectLateResponse(i) ==
    /\ ~crashed /\ run[i].pc \in {"select", "send"} /\ run[i].helper = "ready"
    /\ LET r == run[i]
       IN  IF r.resp = "error"
           THEN run' = [run EXCEPT ![i] =
                   [r EXCEPT !.pc = "send", !.helper = "done", !.elapsed = 0,
                             !.out = Result(r.ref, 0, Err("transport", I64(0), Nil), i)]]
           ELSE run' = [run EXCEPT ![i] = [r EXCEPT !.pc = "body", !.helper = "done"]]
    /\ UNCHANGED <<main, mode, loopVar, verbose, config, mon, mainPc, next, ch,
                   results, lag, crashed>>

\* Lines 167-176: the select takes `case theResponse = <-timeoutChan'; a
\* transport error fails the check, a response is read to its end next.
SelectResponse(i) ==
    /\ ~crashed /\ run[i].pc = "select" /\ run[i].helper = "ready"
    /\ LET r == run[i]
           m == Deref(r.ref)
       IN  IF r.resp = "error"
           THEN run' = [run EXCEPT ![i] =
                   Settle([r EXCEPT !.pc = "send", !.helper = "done",
                             !.calls = Notify(r.calls, verbose, m.Name, r.requestBody, Nil),
                             !.out = Result(r.ref, 0, Err("transport", I64(0), Nil), i)])]
           ELSE run' = [run EXCEPT ![i] = [r EXCEPT !.pc = "body", !.helper = "done"]]
    /\ UNCHANGED <<main, mode, loopVar, verbose, config, mon, mainPc, next, ch,
                   results, lag, crashed>>

\* A mutant: the difference is taken the other way round.
LatencyReversed(r) == 0 - r.elapsed

\* A mutant: the clock is read when the headers are in.
LatencyAtHeaders(r) == Server(r.req.url).headerMs

\* int64(time.Now().Sub(tstart) / time.Millisecond)
Latency(r) == r.elapsed

\* ioutil.ReadAll has the whole body: it is complete bodyMs after the headers.
BodyDue(r) ==
    /\ r.pc = "body"
    /\ r.elapsed >= Server(r.req.url).headerMs + Server(r.req.url).bodyMs

\* Lines 181-203: ioutil.ReadAll returns once the body is complete; then the
\* assertions, the latency, the callback and the result.
RunAssert(i) ==
    /\ ~crashed /\ BodyDue(run[i])
    /\ LET r == run[i]
           s == Server(r.req.url)
           m == Deref(r.ref)
           a == CheckAssertions(m.Assertions, s.body, 1)
       IN  IF a.outcome = "panic"
           THEN /\ crashed' = TRUE
                /\ run' = [run EXCEPT ![i].pc = "panic",
                                      ![i].asserted = Target(r.ref)]
           ELSE /\ run' = [run EXCEPT ![i] =
                     Settle([r EXCEPT !.pc = "send", !.asserted = Target(r.ref),
                               !.calls = Notify(r.calls, verbose, m.Name,
                                                r.requestBody, s.body),
                               !.out = Result(r.ref, Latency(r),
                                              IF a.outcome = "failed"
                                              THEN Err("assertion", I64(0), a.pattern)
                                              ELSE ErrNil, i)])]
                /\ UNCHANGED crashed
    /\ UNCHANGED <<main, mode, loopVar, verbose, config, mon, mainPc, next, ch,
                   results, lag>>

\* c <- Result{m, ...}; return
Send(i) ==
    /\ ~crashed /\ run[i].pc = "send" /\ CanSend
    /\ ch' = Append(ch, run[i].out)
    /\ run' = [run EXCEPT ![i].pc = "done", ![i].sent = @ + 1]
    /\ UNCHANGED <<main, mode, loopVar, verbose, config, mon, mainPc, next, results,
                   lag, crashed>>

\* A step of the program, or something due happening.
Step ==
    \/ MainSpawn
    \/ MainCollect
    \/ MainRecv
    \/ MainReturn
    \/ \E i \in 1..N : RunStart(i)
    \/ \E i \in 1..N : HelperPanic(i)
    \/ \E i \in 1..N : DoReturn(i)
    \/ \E i \in 1..N : TimerFire(i)
    \/ \E i \in 1..N : SelectTimeout(i)
    \/ \E i \in 1..N : SelectResponse(i)
    \/ \E i \in 1..N : RunAssert(i)
    \/ \E i \in 1..N : Send(i)

(***************************************************************************)
(* Time passes, up to the next moment something is due: a server's answer,  *)
(* the end of a body, a timer.  A step takes less than a millisecond, but   *)
(* up to MaxLag times in a run time passes over goroutines that could step. *)
(***************************************************************************)
\* The goroutines between tstart and their result, and those whose helper is
\* calling the server.
Clocked(r) == r.pc \in {"select", "body"} \/ r.helper = "running"

\* The moments, in milliseconds after tstart, at which something is due for r.
Waits(r) ==
    (IF r.helper = "running" /\ ~r.req.nil /\ Server(r.req.url).answers
     THEN {Server(r.req.url).headerMs} ELSE {})
    \cup
    (IF r.pc = "select" /\ r.timer = "armed" /\ TimerDelay(r.timeout) >= 0
     THEN {TimerDelay(r.timeout)} ELSE {})
    \cup
    (IF r.pc \in {"select", "body"} /\ ~r.req.nil /\ Server(r.req.url).answers
           /\ ~Server(r.req.url).refused
     THEN {Server(r.req.url).headerMs + Server(r.req.url).bodyMs} ELSE {})

\* The times from now to the moments still to come.
Ahead == UNION {{d - run[i].elapsed : d \in {w \in Waits(run[i]) : w > run[i].elapsed}}
                : i \in 1..N}

Tick ==
    /\ ~crashed
    /\ \E d \in Ahead :
          /\ \A e \in Ahead : d <= e
          /\ run' = [i \in 1..N |-> IF Clocked(run[i])
                                    THEN [run[i] EXCEPT !.elapsed = @ + d]
                                    ELSE run[i]]
    /\ IF ENABLED Step THEN lag < MaxLag /\ lag' = lag + 1
       ELSE UNCHANGED lag
    /\ UNCHANGED <<main, mode, loopVar, verbose, config, mon, mainPc, next, ch,
                   results, crashed>>

Next == Step \/ Tick

Spec == Init /\ [][Next]_vars

(***************************************************************************)
(* The program (src/conf.go, main, lines 633-775): the configurations are   *)
(* validated, then one batch is run per configuration, then the summary is  *)
(* printed.                                                                 *)
(***************************************************************************)
InitMain ==
    /\ \E cs \in ConfigLists, v \in BOOLEAN, fo \in FlagPool,
          f \in {<<"1.0.4", FALSE>>, <<"1.0.4", TRUE>>, <<"1.1.0", FALSE>>} :
          main = [Main("flags", f[1], f[2], <<>>, v, <<>>, 0, <<>>,
                       Counts(0, 0, 0), NotExited)
                    EXCEPT !.files = cs, !.format = fo[1], !.output = fo[2]]
    /\ mode \in {"parallel", "sequential"}
    /\ loopVar \in {"shared", "element"}
    /\ verbose \in BOOLEAN
    /\ config = <<>>
    /\ mon = 0
    /\ mainPc = "idle"
    /\ next = 1
    /\ ch = <<>>
    /\ results = <<>>
    /\ run = <<>>
    /\ lag = 0
    /\ crashed = FALSE

\* A mutant: every value of -format is taken, with or without -combine.
FlagsExitNever(format, combine, version) == NotExited

\* Lines 655-681 (v1.1.0: src/main.go lines 348-367, which has no -combine):
\* the exit code the flags end the process with, if they do.
FlagsExit(format, combine, version) ==
    IF format \notin {"", "json", "csv", "pandora"} THEN 1
    ELSE IF version = "1.0.4" /\ format = "pandora" /\ combine THEN 1
    ELSE NotExited

\* Lines 655-687: the switch on -format and the check of pandora with
\* -combine, before anything is read.
ParseFlags ==
    /\ main.pc = "flags"
    /\ LET code == FlagsExit(main.format, main.combine, main.version)
       IN  main' = [main EXCEPT !.exit = code,
                                !.pc = IF code = NotExited THEN "read" ELSE "exit"]
    /\ UNCHANGED <<mode, loopVar, verbose, config, mon, mainPc, next, ch,
                   results, run, lag, crashed>>

\* Lines 689-708: ReadConfig or FindConfigs; the files are there and parse.
ReadConfigurations ==
    /\ main.pc = "read"
    /\ main' = [main EXCEPT !.configurations = main.files, !.pc = "validate"]
    /\ UNCHANGED <<mode, loopVar, verbose, config, mon, mainPc, next, ch,
                   results, run, lag, crashed>>

\* validateConfigurations(&configurations), line 710.
ValidateConfigurations ==
    /\ main.pc = "validate"
    /\ LET duplicates == IF main.version = "1.1.0"
                          THEN UniquenessErrors(main.configurations, 1, <<>>)
                          ELSE <<>>
           code == UniquenessExit(duplicates,
                      ValidationExit(main.configurations, main.validateOnly))
       IN  main' = [main EXCEPT
                      !.verdicts = [i \in 1..Len(main.configurations) |->
                                       Validate(main.configurations[i])],
                      !.duplicates = duplicates,
                      !.totalerrs = TotalErrs(main.configurations, 1, duplicates, 0),
                      !.exit = code,
                      !.pc = IF code = NotExited THEN "batch" ELSE "exit"]
    /\ UNCHANGED <<mode, loopVar, verbose, config, mon, mainPc, next, ch,
                   results, run, lag, crashed>>

\* Lines 722-732 and 737-755: the next configuration's monitors, or with
\* -combine the monitors of all, go to runParallel or runSequential.
StartBatch ==
    /\ ~crashed /\ main.pc = "batch"
    /\ main.batch < BatchCount(main.configurations, main.combine)
    /\ config' = BatchMonitors(main.configurations, main.combine, main.batch + 1)
    /\ main' = [main EXCEPT !.pc = "running", !.batch = @ + 1,
                            !.batches = Append(@, config')]
    /\ run' = [i \in 1..Len(config') |-> Idle]
    /\ mon' = 0
    /\ mainPc' = "spawn"
    /\ next' = 1
    /\ ch' = <<>>
    /\ results' = <<>>
    /\ UNCHANGED <<mode, loopVar, verbose, lag, crashed>>

\* A mutant: the batch's results are appended, and the next batch may start,
\* while the coordinator is still receiving.
EndBatchEarly ==
    /\ ~crashed /\ main.pc = "running" /\ mainPc \in {"recv", "returned"}
    /\ main' = [main EXCEPT !.pc = "batch",
                            !.configResults = Append(@, results)]
    /\ mainPc' = "idle"
    /\ UNCHANGED <<mode, loopVar, verbose, config, mon, next, ch, results, run,
                   lag, crashed>>

\* Lines 733 and 756: configResults = append(configResults, cr)
EndBatch ==
    /\ ~crashed /\ main.pc = "running" /\ mainPc = "returned"
    /\ main' = [main EXCEPT !.pc = "batch",
                            !.configResults = Append(@, results)]
    /\ mainPc' = "idle"
    /\ UNCHANGED <<mode, loopVar, verbose, config, mon, next, ch, results, run,
                   lag, crashed>>

\* Line 761: printExecutionSummary(configResults).
Summarize ==
    /\ ~crashed /\ main.pc = "batch"
    /\ main.batch = BatchCount(main.configurations, main.combine)
    /\ main' = [main EXCEPT !.pc = "output",
                            !.summary = printExecutionSummary(main.configResults)]
    /\ UNCHANGED <<mode, loopVar, verbose, config, mon, mainPc, next, ch,
                   results, run, lag, crashed>>

\* A mutant: the writer is called whatever -output is.
WritesAlways(output) == TRUE

\* Line 765: strings.TrimSpace(*flagOutput) != ""
Writes(output) == TrimSpace(output) # <<>>

\* Lines 765-774: with a non-blank -output the format's writer is called;
\* writeDefault (lines 431-436) writes no file and returns nil, the others
\* write the file or fail, and a failure ends the process with code 1 (in
\* writePandoraAgents itself, line 515).  The program ends.
WriteOutput ==
    /\ ~crashed /\ main.pc = "output"
    /\ \E err \in BOOLEAN :
          /\ err => Writes(main.output) /\ main.format # ""
          /\ main' = [main EXCEPT
                         !.pc = "exit",
                         !.exit = IF err THEN 1 ELSE 0,
                         !.written = IF ~Writes(main.output) \/ main.format = ""
                                     THEN "none"
                                     ELSE IF err THEN "failed" ELSE "file"]
    /\ UNCHANGED <<mode, loopVar, verbose, config, mon, mainPc, next, ch,
                   results, run, lag, crashed>>

\* A validated monitor has a URL that parses and patterns that compile: its
\* request is never nil, and the helper's panic is left out.
NextMain ==
    \/ ParseFlags
    \/ ReadConfigurations
    \/ ValidateConfigurations
    \/ StartBatch
    \/ EndBatch
    \/ Summarize
    \/ WriteOutput
    \/ MainSpawn
    \/ MainCollect
    \/ MainRecv
    \/ MainReturn
    \/ \E i \in 1..N : RunStart(i)
    \/ \E i \in 1..N : DoReturn(i)
    \/ \E i \in 1..N : TimerFire(i)
    \/ \E i \in 1..N : SelectTimeout(i)
    \/ \E i \in 1..N : SelectResponse(i)
    \/ \E i \in 1..N : RunAssert(i)
    \/ \E i \in 1..N : Send(i)
    \/ Tick

MainSpec == InitMain /\ [][NextMain]_vars

(***************************************************************************)
(* Functions called on their own: FindConfigs (src/conf.go), v1.1.0's       *)
(* sanitizePandoraData (src/main.go), and the functions of stoh, the        *)
(* program that turns a SoapUI project into hmon configurations             *)
(* (src/stoh/main.go, src/unnamed/part_004).  Texts and file names are      *)
(* sequences of characters.                                                 *)
(***************************************************************************)
\* The longest text.
MaxText == 3

\* The largest number of entries of a directory.
MaxEntries == 3

\* The largest number of interfaces of a project.
MaxInterfaces == 2

\* The largest number of assertions of a request.
MaxAssertions == 3

\* The largest number of keys of a map.
MaxKeys == 2

\* The sequences of elements of S, in every order, each element once.
Orders(S) ==
    {o \in [1..Cardinality(S) -> S] : \A a, b \in DOMAIN o : a # b => o[a] # o[b]}

\* The texts over an alphabet, up to MaxText characters.
Texts(alphabet) == UNION {[1..n -> alphabet] : n \in 0..MaxText}

\* The maps with up to MaxKeys of the keys.
Maps(keys, values) ==
    UNION {[d -> values] : d \in {e \in SUBSET keys : Cardinality(e) <= MaxKeys}}

\* strings.HasSuffix(s, suffix)
HasSuffix(s, suffix) ==
    /\ Len(s) >= Len(suffix)
    /\ SubSeq(s, Len(s) - Len(suffix) + 1, Len(s)) = suffix

\* strings.HasPrefix(s, prefix)
HasPrefix(s, prefix) ==
    Len(s) >= Len(prefix) /\ SubSeq(s, 1, Len(prefix)) = prefix

\* strings.Replace(s, old, new, -1) for a non-empty old: the occurrences of
\* old, found from the left and not overlapping, become new.
RECURSIVE Replace(_, _, _)
Replace(s, old, new) ==
    IF Len(s) < Len(old) THEN s
    ELSE IF HasPrefix(s, old)
         THEN new \o Replace(SubSeq(s, Len(old) + 1, Len(s)), old, new)
         ELSE <<Head(s)>> \o Replace(Tail(s), old, new)

\* "_hmon.xml"
ConfigSuffix == <<"_", "h", "m", "o", "n", ".", "x", "m", "l">>

\* A file's contents: whether xml.Unmarshal accepts them, the hmonconfig name
\* and the monitors they give, and the text of a <FileName> child element of
\* the root (Nil when there is none).
Contents(parses, name, monitors, fileNameElement) ==
    [parses |-> parses, name |-> name, monitors |-> monitors,
     fileNameElement |-> fileNameElement]

\* xml.Unmarshal(contents, &c), for contents that parse: Name is filled from
\* the attribute "name", Monitors from the monitor elements, and FileName,
\* a field without a tag, from a child element of that name if there is one.
Unmarshal(contents, c) ==
    [c EXCEPT !.Name = contents.name,
              !.Monitors = c.Monitors \o contents.monitors,
              !.FileName = IF contents.fileNameElement = Nil THEN @
                           ELSE contents.fileNameElement]

\* An entry of the directory, as Readdir and ReadFile see it.
Entry(name, isDir, readable, contents) ==
    [name |-> name, isDir |-> isDir, readable |-> readable, contents |-> contents]

NoContents == Contents(FALSE, <<>>, <<>>, Nil)

EntryPool ==
    << Entry(<<"a">> \o ConfigSuffix, FALSE, TRUE,
             Contents(TRUE, <<"a">>, <<Catalog[1]>>, Nil)),
       Entry(<<"b">> \o ConfigSuffix, FALSE, TRUE,
             Contents(TRUE, <<"b">>, <<>>, Nil)),
       Entry(<<"c">> \o ConfigSuffix, FALSE, FALSE, NoContents),
       Entry(<<"d">> \o ConfigSuffix, FALSE, TRUE, NoContents),
       Entry(<<"e">> \o ConfigSuffix, TRUE, FALSE, NoContents),
       Entry(<<"a">> \o ConfigSuffix \o <<"~">>, FALSE, TRUE,
             Contents(TRUE, <<"a">>, <<Catalog[1]>>, Nil)),
       Entry(<<"g">> \o ConfigSuffix, FALSE, TRUE,
             Contents(TRUE, <<"g">>, <<Catalog[2]>>, <<"x">>)) >>

\* What os.Open, Stat and Readdir make of baseDir: stat is "dir", "file", or
\* "fails" when Stat returns an error.
Dir(opens, stat, lists, entries) ==
    [opens |-> opens, stat |-> stat, lists |-> lists, entries |-> entries]

\* The directories: one that cannot be opened, a file, one whose Stat fails,
\* one that cannot be listed, and those with up to MaxEntries entries of the
\* pool, no name twice.
Dirs ==
    LET picks == UNION {[1..n -> 1..Len(EntryPool)] : n \in 0..MaxEntries}
        lists == {[k \in DOMAIN p |-> EntryPool[p[k]]] :
                     p \in {q \in picks : \A a, b \in DOMAIN q : a # b => q[a] # q[b]}}
    IN  {Dir(FALSE, "dir", TRUE, <<>>), Dir(TRUE, "file", TRUE, <<>>),
         Dir(TRUE, "fails", TRUE, <<>>), Dir(TRUE, "dir", FALSE, <<>>)}
        \cup {Dir(TRUE, "dir", TRUE, l) : l \in lists}

\* What FindConfigs returns, or that it panicked.
Found(panic, err, configurations) ==
    [panic |-> panic, err |-> err, configurations |-> configurations]

\* FindConfigs, lines 301-328: the loop over the entries.
RECURSIVE ReadEntries(_, _, _)
ReadEntries(finfos, k, configurations) ==
    IF k > Len(finfos) THEN Found(FALSE, "nil", configurations)
    ELSE LET fi == finfos[k]
         IN  IF fi.isDir \/ ~HasSuffix(fi.name, ConfigSuffix)
             THEN ReadEntries(finfos, k + 1, configurations)
             ELSE IF ~fi.readable
             THEN ReadEntries(finfos, k + 1, configurations)
             ELSE IF ~fi.contents.parses
             THEN Found(FALSE, "failed to parse", Nil)
             ELSE ReadEntries(finfos, k + 1,
                     Append(configurations,
                            Unmarshal(fi.contents, Cfg(<<>>, fi.name, <<>>))))

\* FindConfigs: the error of Stat is not looked at, and with it finfo is nil.
FindConfigs(baseDir) ==
    IF ~baseDir.opens THEN Found(FALSE, "open", Nil)
    ELSE IF baseDir.stat = "fails" THEN Found(TRUE, "nil", Nil)
    ELSE IF baseDir.stat # "dir" THEN Found(FALSE, "not a directory", Nil)
    ELSE IF ~baseDir.lists THEN Found(FALSE, "failed to list", Nil)
    ELSE ReadEntries(baseDir.entries, 1, <<>>)

\* v1.1.0, src/main.go line 162: the characters that are removed; "backtick"
\* stands for the grave accent, one character.
replacements == <<"backtick", "'", "\"", "\\", "!">>

\* A mutant: the last of the characters stays.
RECURSIVE sanitizeKeepingLast(_, _)
sanitizeKeepingLast(s, k) ==
    IF k >= Len(replacements) THEN s
    ELSE sanitizeKeepingLast(Replace(s, <<replacements[k]>>, <<>>), k + 1)

\* Lines 163-165: for _, char := range replacements { ... }
RECURSIVE sanitizeFrom(_, _)
sanitizeFrom(s, k) ==
    IF k > Len(replacements) THEN s
    ELSE sanitizeFrom(Replace(s, <<replacements[k]>>, <<>>), k + 1)

sanitizePandoraData(s) == sanitizeFrom(s, 1)

\* stoh: an operation and an interface of a SoapUI project.
Operation(name, soapAction) == [Name |-> name, SoapAction |-> soapAction]

Interface(name, operation) == [Name |-> name, Operation |-> operation]

InterfacePool ==
    << Interface("B1", <<Operation("op1", "urn:b1:op1"), Operation("op2", "urn:b1:op2")>>),
       Interface("B2", <<Operation("op1", "urn:b2:op1")>>),
       Interface("B1", <<Operation("op2", "urn:other"), Operation("op1", "")>>),
       Interface("B2", <<>>),
       Interface("B1", <<Operation("op1", "urn:first"), Operation("op1", "urn:second")>>) >>

\* The projects: up to MaxInterfaces interfaces of the pool.
Projects ==
    UNION {[1..n -> {InterfacePool[k] : k \in 1..Len(InterfacePool)}] :
              n \in 0..MaxInterfaces}

\* A mutant: the binding name is not compared.
RECURSIVE FindSoapActionInAnyInterface(_, _, _, _, _)
FindSoapActionInAnyInterface(interface, bindingName, operationName, i, j) ==
    IF i > Len(interface) THEN ""
    ELSE IF j > Len(interface[i].Operation)
    THEN FindSoapActionInAnyInterface(interface, bindingName, operationName, i + 1, 1)
    ELSE IF interface[i].Operation[j].Name = operationName
    THEN interface[i].Operation[j].SoapAction
    ELSE FindSoapActionInAnyInterface(interface, bindingName, operationName, i, j + 1)

\* Project.FindSoapAction: the two loops, at interface i and operation j.
RECURSIVE FindSoapActionFrom(_, _, _, _, _)
FindSoapActionFrom(interface, bindingName, operationName, i, j) ==
    IF i > Len(interface) THEN ""
    ELSE IF interface[i].Name # bindingName \/ j > Len(interface[i].Operation)
    THEN FindSoapActionFrom(interface, bindingName, operationName, i + 1, 1)
    ELSE IF interface[i].Operation[j].Name = operationName
    THEN interface[i].Operation[j].SoapAction
    ELSE FindSoapActionFrom(interface, bindingName, operationName, i, j + 1)

FindSoapAction(p, bindingName, operationName) ==
    FindSoapActionFrom(p, bindingName, operationName, 1, 1)

\* stoh: an assertion of a request or test step.
Assertion(type, token) == [Type |-> type, Token |-> token]

AssertionPool ==
    << Assertion("Simple Contains", "Text in response"),
       Assertion("Simple Contains", "Other text"),
       Assertion("Simple NotContains", "Error"),
       Assertion("RegEx", "Text in response"),
       Assertion("Groovy Script", "") >>

AssertionLists ==
    UNION {[1..n -> {AssertionPool[k] : k \in 1..Len(AssertionPool)}] :
              n \in 0..MaxAssertions}

\* A mutant: the assertions of every type are taken.
GetAssertionsOfAnyType(assertion, k) ==
    [j \in 1..(Len(assertion) - k + 1) |-> assertion[j + k - 1].Token]

\* Request.GetAssertions and TestStep.GetAssertions: the loop, at index k.
RECURSIVE GetAssertionsFrom(_, _)
GetAssertionsFrom(assertion, k) ==
    IF k > Len(assertion) THEN <<>>
    ELSE (IF assertion[k].Type = "Simple Contains" THEN <<assertion[k].Token>>
          ELSE <<>>) \o GetAssertionsFrom(assertion, k + 1)

GetAssertions(assertion) == GetAssertionsFrom(assertion, 1)

\* The values of Request.Timeout that are looked at.
Timeouts == {0 - 2147483647, 0 - 30000, 0 - 1, 0, 1, 29999, 30000, 30001, 2147483647}

\* A mutant: only a negative Timeout gets the default.
GetTimeoutUnlessNegative(timeout) == IF timeout < 0 THEN 30000 ELSE timeout

\* Request.GetTimeout
GetTimeout(timeout) == IF timeout <= 0 THEN 30000 ELSE timeout

\* The keys and values of the property maps: a value may contain a key, and
\* a key may be part of another.
Keys == {<<"a">>, <<"b">>, <<"a", "b">>}

Values == {<<>>, <<"b">>, <<"c">>}

\* SearchAndReplace, with the order in which range visits the keys.
RECURSIVE SearchAndReplace(_, _, _)
SearchAndReplace(text, kvs, order) ==
    IF order = <<>> THEN text
    ELSE SearchAndReplace(Replace(text, Head(order), kvs[Head(order)]), kvs,
                          Tail(order))

\* A mutant: a key that is in both maps keeps dst's value.
MergeMapKeepingDst(src, dst, order) ==
    [k \in DOMAIN dst \cup DOMAIN src |-> IF k \in DOMAIN dst THEN dst[k] ELSE src[k]]

\* MergeMap, with the order in which range visits the keys of src: dst after
\* the call.
RECURSIVE MergeMap(_, _, _)
MergeMap(src, dst, order) ==
    IF order = <<>> THEN dst
    ELSE MergeMap(src,
                  [k \in DOMAIN dst \cup {Head(order)} |->
                      IF k = Head(order) THEN src[Head(order)] ELSE dst[k]],
                  Tail(order))

\* The keys and values of the maps that are merged.
Names == {"Kevin", "Margot", "Michael"}

Hands == {"Left handed", "Right handed"}

\* A call: the function, its arguments, and what it returned.
Call(pc, fn, input, output) ==
    [pc |-> pc, fn |-> fn, input |-> input, output |-> output]

\* One call, of any of the functions, with arguments from the bounded sets.
InitCall ==
    /\ \/ \E d \in Dirs : main = Call("call", "FindConfigs", d, Nil)
       \/ \E s \in Texts({"backtick", "'", "\"", "\\", "!", "h", " "}) :
             main = Call("call", "sanitizePandoraData", s, Nil)
       \/ \E p \in Projects, b \in {"B1", "B2", "B3"}, o \in {"op1", "op2", "op3"} :
             main = Call("call", "FindSoapAction",
                         [p |-> p, bindingName |-> b, operationName |-> o], Nil)
       \/ \E a \in AssertionLists : main = Call("call", "GetAssertions", a, Nil)
       \/ \E t \in Timeouts : main = Call("call", "GetTimeout", t, Nil)
       \/ \E text \in Texts({"a", "b"}), kvs \in Maps(Keys, Values) :
             main = Call("call", "SearchAndReplace", [text |-> text, kvs |-> kvs], Nil)
       \/ \E src \in Maps(Names, Hands), dst \in Maps(Names, Hands) :
             main = Call("call", "MergeMap", [src |-> src, dst |-> dst], Nil)
    /\ mode = "sequential"
    /\ loopVar = "element"
    /\ verbose = FALSE
    /\ config = <<>>
    /\ mon = 0
    /\ mainPc = "idle"
    /\ next = 1
    /\ ch = <<>>
    /\ results = <<>>
    /\ run = <<>>
    /\ lag = 0
    /\ crashed = FALSE

\* The call returns: output is what it returned.
CallFindConfigs ==
    /\ main.pc = "call" /\ main.fn = "FindConfigs"
    /\ main' = [main EXCEPT !.pc = "returned",
                            !.output = FindConfigs(main.input)]
    /\ UNCHANGED <<mode, loopVar, verbose, config, mon, mainPc, next, ch,
                   results, run, lag, crashed>>

CallSanitizePandoraData ==
    /\ main.pc = "call" /\ main.fn = "sanitizePandoraData"
    /\ main' = [main EXCEPT !.pc = "returned",
                            !.output = sanitizePandoraData(main.input)]
    /\ UNCHANGED <<mode, loopVar, verbose, config, mon, mainPc, next, ch,
                   results, run, lag, crashed>>

CallFindSoapAction ==
    /\ main.pc = "call" /\ main.fn = "FindSoapAction"
    /\ main' = [main EXCEPT !.pc = "returned",
                            !.output = FindSoapAction(main.input.p, main.input.bindingName,
                                          main.input.operationName)]
    /\ UNCHANGED <<mode, loopVar, verbose, config, mon, mainPc, next, ch,
                   results, run, lag, crashed>>

CallGetAssertions ==
    /\ main.pc = "call" /\ main.fn = "GetAssertions"
    /\ main' = [main EXCEPT !.pc = "returned",
                            !.output = GetAssertions(main.input)]
    /\ UNCHANGED <<mode, loopVar, verbose, config, mon, mainPc, next, ch,
                   results, run, lag, crashed>>

CallGetTimeout ==
    /\ main.pc = "call" /\ main.fn = "GetTimeout"
    /\ main' = [main EXCEPT !.pc = "returned",
                            !.output = GetTimeout(main.input)]
    /\ UNCHANGED <<mode, loopVar, verbose, config, mon, mainPc, next, ch,
                   results, run, lag, crashed>>

\* The order of a range over a map is not specified: any order of the keys.
CallSearchAndReplace ==
    /\ main.pc = "call" /\ main.fn = "SearchAndReplace"
    /\ \E order \in Orders(DOMAIN main.input.kvs) :
          main' = [main EXCEPT !.pc = "returned",
                      !.output = [text |-> SearchAndReplace(main.input.text,
                                                           main.input.kvs, order),
                                  order |-> order]]
    /\ UNCHANGED <<mode, loopVar, verbose, config, mon, mainPc, next, ch,
                   results, run, lag, crashed>>

\* src and dst after the call.
CallMergeMap ==
    /\ main.pc = "call" /\ main.fn = "MergeMap"
    /\ \E order \in Orders(DOMAIN main.input.src) :
          main' = [main EXCEPT !.pc = "returned",
                      !.output = [src |-> main.input.src,
                                  dst |-> MergeMap(main.input.src,
                                                   main.input.dst, order)]]
    /\ UNCHANGED <<mode, loopVar, verbose, config, mon, mainPc, next, ch,
                   results, run, lag, crashed>>

NextCall ==
    \/ CallFindConfigs
    \/ CallSanitizePandoraData
    \/ CallFindSoapAction
    \/ CallGetAssertions
    \/ CallGetTimeout
    \/ CallSearchAndReplace
    \/ CallMergeMap

CallSpec == InitCall /\ [][NextCall]_vars

(***************************************************************************)
(* Properties.                                                              *)
(***************************************************************************)
\* The goroutines that have read their monitor.
Started == {i \in 1..N : run[i].ran # 0}

\* The goroutines that have their result.
Decided == {i \in 1..N : run[i].pc \in {"send", "done"}}

\* The monitor goroutine i read when it built its request.
RanMonitor(i) == config[run[i].ran]

\* C1: runParallel and runSequential return a list of exactly N results,
\* whatever the checks' outcomes, and not before N results were received: a
\* failing check never ends the batch early.
C1_ExactlyNResults ==
    mainPc = "returned" => Len(results) = N /\ next = N + 1

C1_Witness ==
    /\ mainPc = "returned" /\ N = 2
    /\ results[1].Error.kind \in {"assertion", "io", "transport", "timeout"}
    /\ results[2].Error.kind = "nil"

\* C2: after runParallel returns, every input monitor was executed exactly
\* once and exactly one result's Monitor back-reference denotes it when the
\* results are consumed.
C2_OneToOne ==
    (mode = "parallel" /\ mainPc = "returned") =>
        \A j \in 1..N :
            /\ Cardinality({i \in 1..N : run[i].ran = j}) = 1
            /\ Cardinality({k \in 1..Len(results) :
                               Target(results[k].Monitor) = j}) = 1

\* C3: after runSequential returns, the i-th result is the result of executing
\* the i-th monitor and its Monitor back-reference denotes the i-th monitor.
C3_InputOrder ==
    (mode = "sequential" /\ mainPc = "returned") =>
        \A k \in 1..Len(results) :
            /\ results[k].run = k
            /\ run[k].ran = k
            /\ Target(results[k].Monitor) = k

\* C4: every invocation of Run sends exactly one Result, on every control
\* path: an invocation that has ended has sent one, none has sent two.
C4_ExactlyOneResult ==
    \A i \in 1..N :
        /\ run[i].sent <= 1
        /\ (run[i].pc \in {"done", "panic"} \/ run[i].helper = "panic")
              => run[i].sent = 1

C6_TimeoutCoversBody ==
    \A i \in Decided :
        LET r == run[i]
            s == Server(r.req.url)
        IN  (/\ ~r.req.nil /\ s.answers /\ ~s.refused
             /\ I64Positive(RanMonitor(i).Timeout)
             /\ s.headerMs < TimerDelay(r.timeout)
             /\ TimerDelay(r.timeout) < s.headerMs + s.bodyMs)
            => r.out.Error.kind = "timeout" /\ r.out.Latency = 0

\* C7: the effective timeout is the configured Timeout in milliseconds when
\* Timeout > 0 and 60000 ms otherwise, and the number of the "timeout after
\* N ms" failure is that number.
C7_EffectiveTimeout ==
    \A i \in 1..N :
        LET T == RanMonitor(i).Timeout
            ms == IF I64Positive(T) THEN T ELSE I64(60 * 1000)
        IN  /\ run[i].timer # "none" => DurationMillis(run[i].timeout) = ms
            /\ (i \in Decided /\ run[i].out.Error.kind = "timeout")
                  => run[i].out.Error.ms = ms

\* C8: the request Run issues is a GET with no body when File is empty and a
\* POST with the file's bytes otherwise; when the file cannot be read the
\* result is the failure with the I/O error and latency 0, and no request is
\* dispatched.
C8_MethodAndPayload ==
    \A i \in Started :
        LET m == RanMonitor(i)
            r == run[i]
        IN  /\ (r.helper # "none" /\ ~r.req.nil) =>
                  /\ r.req.url = m.Url
                  /\ m.File = "" => r.req.method = "GET" /\ r.req.body = Nil
                  /\ m.File # "" => /\ r.req.method = "POST"
                                    /\ ~ReadFile(m.File).err
                                    /\ r.req.body = ReadFile(m.File).bytes
            /\ (m.File # "" /\ ReadFile(m.File).err) =>
                  /\ r.helper = "none" /\ r.req.nil
                  /\ i \in Decided
                  /\ r.out.Error.kind = "io" /\ r.out.Latency = 0

C8_Witness ==
    \E i, j \in 1..N :
        /\ run[i].helper # "none" /\ run[i].req.method = "POST"
        /\ run[i].req.body # Nil
        /\ run[j].pc = "done" /\ run[j].out.Error.kind = "io"
        /\ run[j].out.Latency = 0 /\ run[j].helper = "none"

\* C9: when http.NewRequest fails, for a GET monitor and for a POST monitor
\* whose payload was read, Run delivers the failure with that error and
\* latency 0, dispatches no network call and does not crash.
C9_RequestErrorReported ==
    \A i \in Started :
        LET m == RanMonitor(i)
        IN  (~UrlParses(m.Url) /\ (m.File = "" \/ ~ReadFile(m.File).err)) =>
                /\ i \in Decided
                /\ run[i].out.Error.kind = "request" /\ run[i].out.Latency = 0
                /\ run[i].helper = "none"
                /\ ~crashed

\* C10: Run never panics, whatever monitor it is given; an assertion pattern
\* that does not compile is reported as a failure.
C10_NeverPanics ==
    \A i \in 1..N : run[i].pc # "panic"

\* The goroutines that have evaluated the assertions on a response body.
Asserted == {i \in 1..N : run[i].asserted # 0}

\* The assertions goroutine i evaluated.
AssertedPatterns(i) == config[run[i].asserted].Assertions

\* The response body goroutine i read.
BodyOf(i) == Server(run[i].req.url).body

\* C11: the patterns are evaluated in configured order and the first one that
\* matches nowhere in the body fails the check, with exactly that pattern
\* cited; the patterns after it are not evaluated, they have no part in the
\* outcome (one of them may not even compile).
C11_FirstFailureReported ==
    /\ \A i \in Asserted :
          LET A == AssertedPatterns(i)
              stops == {k \in 1..Len(A) : ~Compiles(A[k]) \/ ~Find(A[k], BodyOf(i))}
          IN  \A k \in stops :
                  ((\A j \in stops : k <= j) /\ Compiles(A[k])) =>
                      /\ i \in Decided
                      /\ run[i].out.Error = Err("assertion", I64(0), A[k])
    /\ \A i \in Decided :
          run[i].out.Error.kind = "assertion" =>
              /\ i \in Asserted
              /\ \E k \in 1..Len(AssertedPatterns(i)) :
                    /\ AssertedPatterns(i)[k] = run[i].out.Error.pattern
                    /\ ~Find(AssertedPatterns(i)[k], BodyOf(i))
                    /\ \A j \in 1..(k - 1) : Find(AssertedPatterns(i)[j], BodyOf(i))

C11_Witness ==
    \E i \in Decided :
        /\ run[i].out.Error.kind = "assertion"
        /\ run[i].pc = "done"
        /\ Len(AssertedPatterns(i)) = 2
        /\ run[i].out.Error.pattern = AssertedPatterns(i)[1]
        /\ ~Compiles(AssertedPatterns(i)[2])

\* The pattern occurs somewhere in the body.
MatchesSomewhere(pattern, body) ==
    \E k \in 1..(Len(body) - Len(pattern) + 1) :
        \A j \in 1..Len(pattern) : body[k + j - 1] = pattern[j]

AllResults ==
    {run[i].out : i \in Decided} \cup {ch[k] : k \in 1..Len(ch)}
        \cup {results[k] : k \in 1..Len(results)}

\* C13: every Result has Latency >= 0, and Latency 0 when it was produced
\* before a response was obtained (payload read error, request construction
\* error, transport error, timeout).
C13_LatencyNonNegative ==
    \A r \in AllResults :
        /\ r.Latency >= 0
        /\ r.Error.kind \in {"io", "request", "transport", "timeout"} => r.Latency = 0

C13_Witness ==
    /\ mainPc = "returned" /\ N = 2
    /\ \E k \in 1..2 : results[k].Latency > 0 /\ results[k].Error.kind = "nil"
    /\ \E k \in 1..2 : results[k].Latency = 0 /\ results[k].Error.kind = "timeout"

\* The invocations of Run that have ended.
Ended ==
    {i \in 1..N : run[i].pc \in {"done", "panic"} \/ run[i].helper = "panic"}

Active == {i \in 1..N : run[i].pc \in {"start", "select", "body", "send"}}

\* C17: in runSequential the Run of monitor i+1 is started only after the
\* Result of monitor i has been received, the wait for a timeout included: at
\* no time are two Runs of the batch active.
C17_OneRunAtATime ==
    mode = "sequential" =>
        /\ Cardinality(Active) <= 1
        /\ \A i \in 2..N :
              run[i].pc # "idle" =>
                  /\ Len(results) >= i - 1
                  /\ results[i - 1].run = i - 1
                  /\ run[i - 1].pc = "done"

C17_Witness ==
    /\ mode = "sequential" /\ N = 2
    /\ run[1].pc = "done" /\ run[1].out.Error.kind = "timeout"
    /\ run[2].pc = "select"

\* The HTTP calls in flight: client.Do was called and has not returned.
InFlight == {i \in 1..N : run[i].helper = "running" /\ ~run[i].req.nil}

\* C18: in sequential mode at most one monitor's HTTP call is in flight at
\* any moment.
C18_OneCallInFlight ==
    mode = "sequential" => Cardinality(InFlight) <= 1

\* The summary has been printed.
Summarized == main.pc = "output" \/ main.written # "unreached"

\* validateConfigurations has been called.
Validated == main.pc \notin {"flags", "read", "validate"} /\ main.configurations = main.files

\* The positions of the Results in the batches' lists.
Cells(configResults) ==
    UNION {{<<b, k>> : k \in 1..Len(configResults[b])} : b \in 1..Len(configResults)}

\* C16: printExecutionSummary's total is the number of Results over all
\* batches, its successes those with Error == nil, its failures those with
\* another Error, so that successes + failures = total; the Results are as
\* the batches returned them.
C16_SummaryCounts ==
    Summarized =>
        LET cr == main.configResults
            ok == {c \in Cells(cr) : cr[c[1]][c[2]].Error.kind = "nil"}
        IN  /\ main.summary.total = Cardinality(Cells(cr))
            /\ main.summary.countOk = Cardinality(ok)
            /\ main.summary.countFail = Cardinality(Cells(cr) \ ok)
            /\ main.summary.countOk + main.summary.countFail = main.summary.total
            /\ Len(cr) = Len(main.batches)
            /\ \A b \in 1..Len(cr) : Len(cr[b]) = Len(main.batches[b])
            /\ cr[Len(cr)] = results

C16_Witness ==
    /\ Summarized
    /\ Len(main.configResults) = 2
    /\ main.summary.total = 3
    /\ main.summary.countOk = 2
    /\ main.summary.countFail = 1

\* The name is empty or white space only.
Blank(name) == \A k \in 1..Len(name) : name[k] = " "

\* The number of times an entry is in a list.
Times(L, entry) == Cardinality({k \in 1..Len(L) : L[k] = entry})

\* What C19 says of one configuration and the list Validate made for it.
ListedAsClaimed(c, L) ==
    /\ Times(L, VErr("config name", -1, -1)) = IF Blank(c.Name) THEN 1 ELSE 0
    /\ \A j \in 1..Len(c.Monitors) :
          LET m == c.Monitors[j]
          IN  /\ Times(L, VErr("empty name", j - 1, -1))
                    = IF m.Name = "" THEN 1 ELSE 0
              /\ Times(L, VErr("empty url", j - 1, -1))
                    = IF m.Url = "" THEN 1 ELSE 0
              /\ Times(L, VErr("malformed url", j - 1, -1))
                    = IF m.Url # "" /\ ~ParseRequestURI(m.Url) THEN 1 ELSE 0
              /\ \A a \in 1..Len(m.Assertions) :
                    Times(L, VErr("invalid regex", j - 1, a - 1))
                        = IF Compiles(m.Assertions[a]) THEN 0 ELSE 1
    /\ \A k \in 1..Len(L) :
          \/ L[k] = VErr("config name", -1, -1)
          \/ /\ L[k].monidx \in 0..(Len(c.Monitors) - 1)
             /\ \/ L[k].kind \in {"empty name", "empty url", "malformed url"}
                   /\ L[k].assidx = -1
                \/ L[k].kind = "invalid regex"
                   /\ L[k].assidx \in 0..(Len(c.Monitors[L[k].monidx + 1].Assertions) - 1)
    /\ \A k, l \in 1..Len(L) : k < l => L[k].monidx <= L[l].monidx

ConfigValid(c) ==
    /\ ~Blank(c.Name)
    /\ \A j \in 1..Len(c.Monitors) :
          /\ c.Monitors[j].Name # ""
          /\ ParseRequestURI(c.Monitors[j].Url)
          /\ \A a \in 1..Len(c.Monitors[j].Assertions) :
                Compiles(c.Monitors[j].Assertions[a])

\* No two configurations have the same hmonconfig name.
NamesDistinct(configurations) ==
    \A i, j \in 1..Len(configurations) :
        i # j => configurations[i].Name # configurations[j].Name

\* No Run has been started and no batch begun.
NoRun ==
    /\ main.batch = 0 /\ main.configResults = <<>>
    /\ mainPc = "idle" /\ run = <<>> /\ ch = <<>> /\ results = <<>>

\* C20: no monitor is executed unless every configuration passes validation:
\* with no configuration, or one with a validation error, the program exits
\* with code 1 before any Run is started; with -validate and all
\* configurations valid it exits with code 0, also before any Run.  In v1.1.0
\* the validation includes the uniqueness of the configurations' names.
C20_ValidationGate ==
    LET allValid == /\ main.configurations # <<>>
                    /\ \A i \in 1..Len(main.configurations) :
                          ConfigValid(main.configurations[i])
                    /\ main.version = "1.1.0" => NamesDistinct(main.configurations)
    IN  /\ ~NoRun => allValid /\ ~main.validateOnly
        /\ Validated =>
              /\ ~allValid => main.pc = "exit" /\ main.exit = 1 /\ NoRun
              /\ (allValid /\ main.validateOnly) =>
                    main.pc = "exit" /\ main.exit = 0 /\ NoRun

C20_Witness ==
    /\ main.pc = "exit" /\ main.exit = 1 /\ NoRun
    /\ Len(main.configurations) = 2
    /\ ConfigValid(main.configurations[1])
    /\ ~ConfigValid(main.configurations[2])

\* The uniqueness errors the claim C21 expects: one for each configuration
\* whose name an earlier one has, naming the first file with that name.
ExpectedDuplicates(configurations) ==
    LET later == {k \in 1..Len(configurations) :
                     \E j \in 1..(k - 1) : configurations[j].Name = configurations[k].Name}
        first(k) == CHOOSE j \in 1..k :
                       /\ configurations[j].Name = configurations[k].Name
                       /\ \A h \in 1..(j - 1) :
                             configurations[h].Name # configurations[k].Name
    IN  [k \in later |-> UErr(configurations[k].FileName, configurations[k].Name,
                              configurations[first(k)].FileName)]

DuplicateMonitorNames(c) ==
    \E i, j \in 1..Len(c.Monitors) : i # j /\ c.Monitors[i].Name = c.Monitors[j].Name

\* C22: when two monitors of one configuration have the same name, the
\* validate step reports an error for that configuration, and no monitor is
\* executed.
C22_UniqueMonitorNames ==
    \A i \in 1..Len(main.verdicts) :
        DuplicateMonitorNames(main.configurations[i]) =>
            /\ ~main.verdicts[i].nil
            /\ main.pc = "exit" /\ main.exit = 1 /\ NoRun

\* The number of monitors of the configurations from the k-th on.
RECURSIVE MonitorCount(_, _)
MonitorCount(configurations, k) ==
    IF k > Len(configurations) THEN 0
    ELSE Len(configurations[k].Monitors) + MonitorCount(configurations, k + 1)

\* The position in the combined batch of the j-th monitor of the i-th
\* configuration.
CombinedIndex(configurations, i, j) ==
    MonitorCount(configurations, 1) - MonitorCount(configurations, i) + j

\* C30: with -combine the monitors of all configurations, in configuration
\* order then monitor order, are one batch, run once, and there is exactly
\* one ConfigurationResult, with as many results as the configurations have
\* monitors together; without -combine there is one ConfigurationResult per
\* configuration, in configuration order, each with as many results as the
\* configuration has monitors.
C30_Combine ==
    LET cs == main.configurations
        cr == main.configResults
    IN  /\ main.combine =>
              /\ Len(main.batches) <= 1 /\ Len(cr) <= 1
              /\ \A b \in 1..Len(main.batches) :
                    /\ Len(main.batches[b]) = MonitorCount(cs, 1)
                    /\ \A i \in 1..Len(cs) : \A j \in 1..Len(cs[i].Monitors) :
                          main.batches[b][CombinedIndex(cs, i, j)] = cs[i].Monitors[j]
              /\ Summarized =>
                    Len(cr) = 1 /\ Len(main.batches) = 1
                    /\ Len(cr[1]) = MonitorCount(cs, 1)
        /\ ~main.combine =>
              /\ Len(main.batches) <= Len(cs)
              /\ \A b \in 1..Len(main.batches) : main.batches[b] = cs[b].Monitors
              /\ \A b \in 1..Len(cr) : Len(cr[b]) = Len(cs[b].Monitors)
              /\ Summarized => Len(cr) = Len(cs) /\ Len(main.batches) = Len(cs)

C30_Witness ==
    /\ Summarized /\ main.combine
    /\ Len(main.configurations) = 2
    /\ Len(main.configResults) = 1
    /\ Len(main.configResults[1]) = 3

\* The call of fn has returned.
Returned(fn) == main.pc = "returned" /\ main.fn = fn

\* The entries that are files with a name ending in "_hmon.xml".
Matching(entries) ==
    {k \in 1..Len(entries) :
        ~entries[k].isDir /\ HasSuffix(entries[k].name, ConfigSuffix)}

\* C23: FindConfigs returns an error and no configurations when the directory
\* cannot be opened, is not a directory, cannot be listed, or has a file
\* named *_hmon.xml that does not parse; otherwise it returns no error and
\* exactly one Config for each readable file named *_hmon.xml, its FileName
\* the file's base name, and none for directories, other names and files that
\* cannot be read.
C23_FindConfigs ==
    Returned("FindConfigs") =>
        LET d == main.input
            out == main.output
            match == Matching(d.entries)
            read == {k \in match : d.entries[k].readable}
            fails == \/ ~d.opens \/ d.stat = "file" \/ ~d.lists
                     \/ \E k \in read : ~d.entries[k].contents.parses
        IN  /\ ~out.panic
            /\ fails => out.err # "nil" /\ out.configurations = Nil
            /\ ~fails =>
                  /\ out.err = "nil"
                  /\ Len(out.configurations) = Cardinality(read)
                  /\ \A k \in read :
                        Cardinality({j \in 1..Len(out.configurations) :
                            /\ out.configurations[j].FileName = d.entries[k].name
                            /\ out.configurations[j].Name = d.entries[k].contents.name
                            /\ out.configurations[j].Monitors
                                  = d.entries[k].contents.monitors}) = 1

\* C24: sanitizePandoraData returns its argument without the backticks,
\* single quotes, double quotes, backslashes and exclamation marks, the other
\* characters in their order; the result has none of the five, an argument
\* with none of them is returned as it is, and sanitizing the result again
\* changes nothing.
C24_Sanitized ==
    Returned("sanitizePandoraData") =>
        LET s == main.input
            out == main.output
            removed == {replacements[k] : k \in 1..Len(replacements)}
        IN  /\ out = SelectSeq(s, LAMBDA char : char \notin removed)
            /\ \A k \in 1..Len(out) : out[k] \notin removed
            /\ (\A k \in 1..Len(s) : s[k] \notin removed) => out = s
            /\ sanitizePandoraData(out) = out

C24_Witness ==
    /\ Returned("sanitizePandoraData")
    /\ main.input = <<"!", "h", "backtick">>
    /\ main.output = <<"h">>

\* C25: FindSoapAction returns the SoapAction of the first operation, in
\* interface order then operation order, whose interface has the binding name
\* and which has the operation name, and "" when there is none; an operation
\* of an interface with another name is never the one returned.
C25_FindSoapAction ==
    Returned("FindSoapAction") =>
        LET p == main.input.p
            hits == {c \in UNION {{<<i, j>> : j \in 1..Len(p[i].Operation)} :
                                     i \in 1..Len(p)} :
                        /\ p[c[1]].Name = main.input.bindingName
                        /\ p[c[1]].Operation[c[2]].Name = main.input.operationName}
        IN  IF hits = {} THEN main.output = ""
            ELSE \E c \in hits :
                    /\ \A d \in hits : c[1] < d[1] \/ (c[1] = d[1] /\ c[2] <= d[2])
                    /\ main.output = p[c[1]].Operation[c[2]].SoapAction

C25_Witness ==
    /\ Returned("FindSoapAction")
    /\ main.input.p = <<InterfacePool[2], InterfacePool[1]>>
    /\ main.input.bindingName = "B1" /\ main.input.operationName = "op1"
    /\ main.output = "urn:b1:op1"

\* C26: GetAssertions returns the tokens of the assertions of type "Simple
\* Contains", in their order, and of no other assertion; there are as many
\* as there are assertions of that type.
C26_GetAssertions ==
    Returned("GetAssertions") =>
        LET simple == SelectSeq(main.input, LAMBDA ass : ass.Type = "Simple Contains")
        IN  /\ Len(main.output) = Len(simple)
            /\ \A k \in 1..Len(simple) : main.output[k] = simple[k].Token

C26_Witness ==
    /\ Returned("GetAssertions")
    /\ main.input = <<AssertionPool[1], AssertionPool[4], AssertionPool[2]>>
    /\ main.output = <<"Text in response", "Other text">>

\* C27: GetTimeout returns 30000 for a Timeout that is 0 or less and the
\* Timeout itself when it is more than 0; what it returns is more than 0.
C27_GetTimeout ==
    Returned("GetTimeout") =>
        /\ main.input <= 0 => main.output = 30000
        /\ main.input > 0 => main.output = main.input
        /\ main.output > 0

C27_Witness == Returned("GetTimeout") /\ main.input = 0 /\ main.output = 30000

\* The texts that are text with the occurrences of the keys replaced by the
\* keys' values, read from the left, and everything else as it was.
RECURSIVE Expanded(_, _)
Expanded(text, kvs) ==
    IF text = <<>> THEN {<<>>}
    ELSE LET here == {key \in DOMAIN kvs : HasPrefix(text, key)}
         IN  IF here = {}
             THEN {<<Head(text)>> \o rest : rest \in Expanded(Tail(text), kvs)}
             ELSE UNION {{kvs[key] \o rest :
                             rest \in Expanded(SubSeq(text, Len(key) + 1, Len(text)), kvs)} :
                            key \in here}

\* C28: SearchAndReplace returns the text with every occurrence of every key
\* replaced by the key's value and the rest of the text unchanged; a key
\* that is not in the text has no effect, and with an empty map the text is
\* returned as it is.
C28_SearchAndReplace ==
    Returned("SearchAndReplace") =>
        LET text == main.input.text
            kvs == main.input.kvs
            occurring == {key \in DOMAIN kvs :
                             \E k \in 1..Len(text) :
                                 HasPrefix(SubSeq(text, k, Len(text)), key)}
        IN  /\ main.output.text \in Expanded(text, kvs)
            /\ main.output.text \in Expanded(text, [key \in occurring |-> kvs[key]])
            /\ DOMAIN kvs = {} => main.output.text = text

\* C29: after MergeMap(src, dst), dst has src's value for every key of src,
\* its former value for every key that only it had, and no other key; src is
\* as it was.
C29_MergeMap ==
    Returned("MergeMap") =>
        LET src == main.input.src
            dst == main.input.dst
            after == main.output.dst
        IN  /\ DOMAIN after = DOMAIN src \cup DOMAIN dst
            /\ \A k \in DOMAIN src : after[k] = src[k]
            /\ \A k \in DOMAIN dst \ DOMAIN src : after[k] = dst[k]
            /\ main.output.src = src

C29_Witness ==
    /\ Returned("MergeMap")
    /\ \E k \in DOMAIN main.input.src \cap DOMAIN main.input.dst :
          /\ main.input.src[k] # main.input.dst[k]
          /\ main.output.dst[k] = main.input.src[k]
    /\ DOMAIN main.input.src \ DOMAIN main.input.dst # {}
    /\ DOMAIN main.input.dst \ DOMAIN main.input.src # {}
    /\ Cardinality(DOMAIN main.output.dst) = 3

\* C31: in runParallel every Run goroutine is started before the coordinator
\* receives the first result, and the channel has room for N results: it
\* never holds more than N, and no goroutine that has its result waits to
\* send it, whether the coordinator is receiving yet or not.
C31_SendNeverBlocks ==
    mode = "parallel" =>
        /\ Len(ch) <= N
        /\ (mainPc = "recv" \/ results # <<>>) =>
              next > N /\ \A i \in 1..N : run[i].pc # "idle"
        /\ \A i \in 1..N : run[i].pc = "send" => CanSend

C31_Witness ==
    /\ mode = "parallel" /\ N = 2 /\ mainPc = "spawn" /\ ~crashed
    /\ Len(ch) = 1
    /\ \E i \in 1..N : run[i].pc = "send"

\* The goroutines that have fields of their Monitor still to read.
Reading == {i \in 1..N : run[i].pc \in {"start", "select", "body"}}

\* C32: the Monitors are read-only during execution: Run writes no field of
\* its Monitor, the Monitors of the Config are unchanged when runParallel or
\* runSequential returns, and no goroutine writes the Monitor a Run was
\* invoked on while that Run has fields of it to read.
C32_SpecReadOnly ==
    \A i \in Reading : Target(run[i].ref) = i /\ Deref(run[i].ref) = config[i]

\* C33: a failed check is final: each Run dispatches at most one request and
\* delivers one result, and no monitor of the batch is the subject of more
\* than one Run.
C33_NoReattempt ==
    /\ \A i \in 1..N : run[i].sent <= 1
    /\ \A i, j \in Started : i # j => run[i].ran # run[j].ran

\* The steps of one check, in the order of the code.
StepOrder ==
    { <<"idle", "start">>, <<"start", "select">>, <<"start", "send">>,
      <<"start", "panic">>, <<"select", "body">>, <<"select", "send">>,
      <<"body", "send">>, <<"body", "panic">>, <<"send", "done">> }

\* C35: within one check the clock is started and the request dispatched,
\* then the response is obtained, then the body is read to its end and the
\* assertions are evaluated, then the latency is computed, then the result
\* is delivered; on the success path and the assertion-failure path the
\* latency is computed after the body has been read and the assertions
\* evaluated.
C35_StepOrder ==
    [][\A i \in 1..N :
          LET a == run[i]
              b == run'[i]
          IN  /\ a.pc # b.pc => <<a.pc, b.pc>> \in StepOrder
              /\ (a.pc = "start" /\ b.pc = "select") =>
                    b.elapsed = 0 /\ a.helper = "none" /\ b.helper = "running"
              /\ (a.pc = "select" /\ b.pc = "body") =>
                    /\ a.helper = "ready" /\ a.resp = "response"
                    /\ a.elapsed >= Server(a.req.url).headerMs
              /\ (a.pc = "body" /\ b.pc = "send") =>
                    /\ b.asserted # 0
                    /\ b.out.Error.kind \in {"nil", "assertion"}
                    /\ b.out.Latency = a.elapsed
                    /\ a.elapsed >= Server(a.req.url).headerMs
                                       + Server(a.req.url).bodyMs
              /\ (a.pc # "send" /\ b.pc = "send"
                      /\ b.out.Error.kind \in {"nil", "assertion"}) => a.pc = "body"
              /\ b.sent # a.sent =>
                    a.pc = "send" /\ b.pc = "done" /\ ch' = Append(ch, a.out)
      ]_vars

C35_Witness ==
    \E i \in 1..N :
        /\ run[i].pc = "done" /\ run[i].out.Error.kind = "nil"
        /\ Server(run[i].req.url).bodyMs = 3
        /\ run[i].out.Latency = 4

\* C36: every goroutine started for a batch terminates: once the batch has
\* returned and every HTTP call has returned, no Run and no helper goroutine
\* is left blocked; the helper completes its send of the response also when
\* Run took the timeout.
C36_NoGoroutineBlocked ==
    (~crashed /\ mainPc = "returned" /\ \A i \in 1..N : run[i].helper # "running") =>
        \A i \in 1..N : run[i].pc = "done" /\ run[i].helper \in {"none", "done"}

\* C37: SearchAndReplace returns the same text for every order in which the
\* range visits the keys of the map.
C37_SearchAndReplaceDeterministic ==
    Returned("SearchAndReplace") =>
        \A order \in Orders(DOMAIN main.input.kvs) :
            SearchAndReplace(main.input.text, main.input.kvs, order)
                = main.output.text

\* C34: batches never overlap: a Run of batch k+1 is started only after the
\* coordinator of batch k has received all of its results and returned, and
\* the batches' results are appended in the order of the configurations.
C34_BatchesNeverOverlap ==
    main.pc \in {"batch", "running", "exit"} =>
        /\ Len(main.batches) = main.batch
        /\ Len(main.configResults)
              = IF main.pc = "running" THEN main.batch - 1 ELSE main.batch
        /\ \A k \in 1..Len(main.batches) :
              main.batches[k]
                  = BatchMonitors(main.configurations, main.combine, k)
        /\ \A k \in 1..Len(main.configResults) :
              Len(main.configResults[k]) = Len(main.batches[k])
        /\ (\E i \in 1..N : run[i].pc # "idle") =>
              /\ main.batch >= 1 /\ config = main.batches[main.batch]
              /\ main.pc # "running" => mainPc = "idle" /\ \A i \in 1..N : run[i].pc = "done"

C34_Witness ==
    /\ main.pc = "running" /\ main.batch = 2 /\ ~main.combine
    /\ Len(main.configResults) = 1 /\ Len(main.configResults[1]) = 1
    /\ N = 2 /\ \A i \in 1..N : run[i].pc \notin {"idle", "done"}

\* The number of entries of the ErrorLists of the verdicts from the k-th on.
RECURSIVE ErrorCount(_, _)
ErrorCount(verdicts, k) ==
    IF k > Len(verdicts) THEN 0
    ELSE Len(verdicts[k].ErrorList) + ErrorCount(verdicts, k + 1)

\* C38: the total validateConfigurations prints with "Failed due to a total
\* of %d validation errors" is the number of validation errors: the sum of
\* the lengths of the configurations' ErrorLists, plus in v1.1.0 the number
\* of name-uniqueness errors, for any number of errors.
C38_TotalPrinted ==
    (main.pc = "exit" /\ main.exit = 1 /\ NoRun /\ Len(main.configurations) > 0) =>
        main.totalerrs = ErrorCount(main.verdicts, 1) + Len(main.duplicates)

\* C39: an unknown -format, or -format=pandora together with -combine, ends
\* the program with exit code 1 before any configuration is read and before
\* any monitor is run; a results file is written only when -output is not
\* blank, and then only after all batches have completed and the execution
\* summary has been produced.
C39_FlagsAndOutput ==
    /\ (/\ main.pc # "flags"
        /\ \/ main.format \notin {"", "json", "csv", "pandora"}
           \/ main.format = "pandora" /\ main.combine) =>
          /\ main.pc = "exit" /\ main.exit = 1
          /\ main.configurations = <<>> /\ main.verdicts = <<>> /\ NoRun
    /\ main.written \in {"file", "failed"} =>
          /\ TrimSpace(main.output) # <<>>
          /\ main.pc = "exit"
          /\ main.batch = BatchCount(main.configurations, main.combine)
          /\ Len(main.configResults) = main.batch
          /\ \A k \in 1..main.batch :
                Len(main.configResults[k]) = Len(main.batches[k])
          /\ main.summary = printExecutionSummary(main.configResults)
          /\ mainPc = "idle"
    /\ main.written = "file" => main.exit = 0

C39_Witness ==
    /\ main.written = "file" /\ main.format = "json" /\ main.exit = 0
    /\ Len(main.configResults) = 2 /\ main.summary.total = 3

=============================================================================
